---- MODULE Spec2Model ----
(***************************************************************************)
(* Model of the Parts Sandbox alias reconciliation engine and query       *)
(* service: ApplicationManager (src/src/manager.py) and QMFile            *)
(* (src/src/QMFile.py).                                                    *)
(*                                                                         *)
(* Two stores exist in the code and are modelled separately:               *)
(*   store : the 'aliases' sheet of excels/parts_sandbox.xlsx, read and    *)
(*           written by refresh_all_files;                                 *)
(*   db    : the 'aliases' table of the sqlite database, written by        *)
(*           update_alias and read by search_parts.                        *)
(*                                                                         *)
(* Specifications: Spec (refresh_all_files over the workbook store),       *)
(* SpecQuery (update_alias, search_parts, get_eau_forecast over the        *)
(* table), SpecPersist (the table across manager instances), SpecDiscovery *)
(* (the file listings), SpecVisibility and SpecIngest (both stores of one  *)
(* manager).                                                               *)
(*                                                                         *)
(* Strings are sequences of one-character strings, so that substring and   *)
(* LIKE matching are computed and not assumed.  An empty spreadsheet cell  *)
(* (None / NaN / SQL NULL) is the value Empty.                             *)
(***************************************************************************)
EXTENDS Integers, Sequences, FiniteSets, TLC

VARIABLES
    dirExists,      \* whether the excels directory exists
    files,          \* the directory listing, in os.listdir order
    store,          \* rows of the 'aliases' sheet of parts_sandbox.xlsx
    storeIntact,    \* whether parts_sandbox.xlsx can be read: FALSE once a
                    \* save into it was cut short
    storeBefore,    \* store when the last refresh_all_files call began
    phase,          \* where the last refresh_all_files call ended
    result,         \* what the last refresh_all_files call gave its caller
    runs,           \* number of refresh_all_files calls made so far
    opened,         \* the entries the last refresh_all_files call passed to
                    \* QMFile, in order
    leaked,         \* the entries whose workbook that call loaded and never
                    \* closed
    listing,        \* the last file-listing call: the function called (by),
                    \* whether it returned None, and the names it returned
    dbPath,         \* "memory" (':memory:') or "file" (a database file)
    db,             \* rows of the sqlite 'aliases' table, in rowid order
    updateResult,   \* what the manager's last update_alias call returned
    updateColumns,  \* whether the sheet given to that call had both columns
    searchTerm,     \* argument of the last search_parts call
    searchResult,   \* rows returned by the last search_parts call
    searchStatus,   \* "returned", or "none": no search_parts call was made
                    \* since the table was last written
    forecastPart,   \* argument of the last get_eau_forecast call
    forecastStatus, \* "none", "returned" or "raised"
    forecastEau     \* eau of the dict the last get_eau_forecast returned

vars == <<dirExists, files, store, storeIntact, storeBefore, phase, result, runs, opened,
          leaked, listing, dbPath, db, updateResult, updateColumns, searchTerm, searchResult, searchStatus,
          forecastPart, forecastStatus, forecastEau>>

refreshVars == <<dirExists, files, store, storeIntact, storeBefore, phase, result, runs,
                 opened, leaked>>
dbVars == <<dbPath, db, updateResult, updateColumns>>
searchVars == <<searchTerm, searchResult, searchStatus>>
forecastVars == <<forecastPart, forecastStatus, forecastEau>>

(***************************************************************************)
(* Bounds                                                                  *)
(***************************************************************************)
MaxFiles == 2       \* directory entries
MaxRows == 2        \* data rows over all the sheets of the directory
MaxRuns == 2        \* refresh_all_files calls in one behaviour
MaxDbRows == 3      \* rows of the sqlite aliases table
MaxTerm == 2        \* characters of a search term

Empty == <<"<empty>">>

A1 == <<"a", "b">>
A2 == <<"B">>
V1 == <<"x">>
V2 == <<"A">>

Row(a, v) == [alias |-> a, value |-> v]

\* The (alias, value) cells a data row of a Master Part List sheet may hold.
RowSet == {Row(A1, V1), Row(A1, V2), Row(Empty, V1), Row(A2, Empty)}

SeqsUpTo(S, n) == UNION {[1..k -> S] : k \in 0..n}

(***************************************************************************)
(* Directory entries.  kind:                                               *)
(*   "sheet"      an .xlsx workbook with a 'Master Part List' sheet whose  *)
(*                first row holds the labels hdr                           *)
(*   "nosheet"    an .xlsx workbook without that sheet                     *)
(*   "unreadable" an .xlsx name openpyxl.load_workbook cannot load         *)
(*   "other"      a name that does not end in .xlsx                        *)
(*   "dir"        a subdirectory whose name ends in .xlsx                  *)
(*   "store"      parts_sandbox.xlsx, the store's own workbook             *)
(***************************************************************************)
File(k, h, rs) == [kind |-> k, hdr |-> h, rows |-> rs]

BothColumns == {"alias", "value"}

FileSet ==
    {File("sheet", BothColumns, rs) : rs \in SeqsUpTo(RowSet, MaxRows)}
    \cup {File("sheet", {"alias"}, <<Row(A1, V2)>>)}
    \cup {File(k, {}, <<>>) : k \in {"nosheet", "unreadable", "other"}}

RECURSIVE TotalRows(_)
TotalRows(dir) ==
    IF dir = <<>> THEN 0
    ELSE (IF Head(dir).hdr = BothColumns THEN Len(Head(dir).rows) ELSE 0)
         + TotalRows(Tail(dir))

Dirs == {d \in SeqsUpTo(FileSet, MaxFiles) : TotalRows(d) <= MaxRows}

\* Every kind of directory entry, the store's own workbook included.
EntrySet == FileSet \cup {File(k, {}, <<>>) : k \in {"dir", "store"}}

\* Directory listings: one name is one entry, so the store's workbook is
\* there at most once.
Listings ==
    {d \in SeqsUpTo(EntrySet, MaxFiles) :
        /\ TotalRows(d) <= MaxRows
        /\ Cardinality({i \in DOMAIN d : d[i].kind = "store"}) <= 1}

RECURSIVE DropDuplicates(_)
\* DataFrame.drop_duplicates(subset=['alias'], keep='first')
DropDuplicates(s) ==
    IF s = <<>> THEN <<>>
    ELSE LET n == Len(s)
             front == SubSeq(s, 1, n - 1)
         IN  IF \E j \in 1..(n - 1) : s[j].alias = s[n].alias
             THEN DropDuplicates(front)
             ELSE Append(DropDuplicates(front), s[n])

RECURSIVE DropDuplicatesLast(_)
\* DataFrame.drop_duplicates(subset=['alias'], keep='last')
DropDuplicatesLast(s) ==
    IF s = <<>> THEN <<>>
    ELSE IF \E j \in 2..Len(s) : s[j].alias = s[1].alias
         THEN DropDuplicatesLast(Tail(s))
         ELSE <<s[1]>> \o DropDuplicatesLast(Tail(s))

AliasesOf(s) == {s[i].alias : i \in DOMAIN s}

\* A store the program itself can have written: no alias twice.
WellFormed(s) == \A i, j \in DOMAIN s : s[i].alias = s[j].alias => i = j

Stores == {s \in SeqsUpTo(RowSet, Cardinality({r.alias : r \in RowSet})) :
              WellFormed(s)}

(***************************************************************************)
(* refresh_all_files                                                       *)
(***************************************************************************)
\* manager.py 189-193: the names ending in .xlsx other than the store's own.
IsCandidate(f) == f.kind \notin {"other", "store"}

Discover(dir) == SelectSeq(dir, IsCandidate)

\* QMFile.__init__: load_workbook or load_data raises.
QMFileRaises(f) == f.kind \in {"nosheet", "unreadable", "dir"}

\* The column test with "or" in place of "and".
HasColumnsEither(f) == "alias" \in f.hdr \/ "value" \in f.hdr

\* manager.py 222
HasColumns(f) == "alias" \in f.hdr /\ "value" \in f.hdr

\* QMFile.py 20: openpyxl.load_workbook(file_path) returns a workbook.
WorkbookLoads(f) == f.kind \in {"sheet", "nosheet"}

LoopStart == [warn |-> FALSE, all |-> <<>>, bound |-> FALSE, aborted |-> FALSE,
              opened |-> <<>>, open |-> <<>>]

RECURSIVE ProcessFiles(_, _)
\* manager.py 211-236.  acc.bound: the local qm_file is bound (an earlier
\* QMFile(file) returned); the finally clause reads qm_file, and raises
\* UnboundLocalError out of the loop when it is not.  acc.open: the
\* workbooks loaded and not closed.  The workbook the finally clause closes is
\* the one of the QMFile last bound to qm_file: the file's own when
\* QMFile(file) returned, an earlier file's when it raised, in which case
\* the workbook load_workbook had returned for this file stays open.
ProcessFiles(fs, acc) ==
    IF fs = <<>> THEN acc
    ELSE LET f == Head(fs)
             now == [acc EXCEPT !.opened = Append(@, f),
                                !.open = IF QMFileRaises(f) /\ WorkbookLoads(f)
                                         THEN Append(@, f) ELSE @]
         IN  IF QMFileRaises(f)
             THEN IF acc.bound
                  THEN ProcessFiles(Tail(fs), [now EXCEPT !.warn = TRUE])
                  ELSE [now EXCEPT !.warn = TRUE, !.aborted = TRUE]
             ELSE IF HasColumns(f)
                  THEN ProcessFiles(Tail(fs),
                           [now EXCEPT !.bound = TRUE, !.all = Append(@, f.rows)])
                  ELSE ProcessFiles(Tail(fs),
                           [now EXCEPT !.bound = TRUE, !.warn = TRUE])

RECURSIVE Concat(_)
\* pd.concat(frames, ignore_index=True)
Concat(frames) ==
    IF frames = <<>> THEN <<>> ELSE Head(frames) \o Concat(Tail(frames))

\* new_aliases with keep='last'.
NewAliasesKeepLast(all) == DropDuplicatesLast(Concat(all))

\* manager.py 240-241
NewAliases(all) == DropDuplicates(Concat(all))

\* combined_aliases with keep='last': the incoming value wins.
CombinedAliasesKeepLast(existing, new) == DropDuplicatesLast(existing \o new)

\* manager.py 244-245
CombinedAliases(existing, new) == DropDuplicates(existing \o new)

\* A return value that leaves had_warnings out.
ReturnValueIgnoringWarnings(hadWarnings) == "true"

\* manager.py 253
ReturnValue(hadWarnings) == IF hadWarnings THEN "false" ELSE "true"

\* What the ExcelWriter block (manager.py 248-249) can do to
\* parts_sandbox.xlsx.  The block opens the workbook itself and saves into it
\* when it is left; nothing is written to a temporary file first.
\*   "saved"    the combined frame is the 'aliases' sheet, as the comment at
\*              247 states
\*   "refused"  the block raises before the workbook is touched (it cannot
\*              be opened for writing, or the pandas version refuses to write
\*              a sheet that exists in append mode)
\*   "torn"     the save raises part way (the disk fills, the process is
\*              interrupted): the workbook is left partly written and can no
\*              longer be read
WriteOutcomes == {"saved", "refused", "torn"}

\* A listing that never fails: a missing directory reads as an empty one.
ListDirNeverRaises == FALSE

\* manager.py 191: os.listdir(excel_folder) raises FileNotFoundError.
ListDirRaises == ~dirExists

\* manager.py 200-205: pd.read_excel(sandbox_path, sheet_name='aliases')
\* raises something other than FileNotFoundError or KeyError.
ReadStoreRaises == ~storeIntact

Outcome(p, r, s, i) == [phase |-> p, result |-> r, store |-> s, intact |-> i]

\* How a call ends, after the loop over the candidates cands has given done.
RefreshOutcome(cands, done, write) ==
    IF ListDirRaises
    THEN Outcome("DirError", "raised", store, storeIntact)
    ELSE IF cands = <<>>
    THEN Outcome("NoFiles", "false", store, storeIntact)
    ELSE IF ReadStoreRaises
    THEN Outcome("StoreError", "raised", store, storeIntact)
    ELSE IF done.aborted
    THEN Outcome("Aborted", "raised", store, storeIntact)
    ELSE IF done.all = <<>>
    THEN Outcome("NothingToMerge", ReturnValue(done.warn), store, storeIntact)
    ELSE IF write = "refused"
    THEN Outcome("WriteError", "raised", store, storeIntact)
    ELSE IF write = "torn"
    THEN Outcome("WriteError", "raised", <<>>, FALSE)
    ELSE Outcome("Persisted", ReturnValue(done.warn),
                 CombinedAliases(store, NewAliases(done.all)), TRUE)

\* One call of refresh_all_files.  write: what the ExcelWriter block does,
\* an input of the call.  The loop is entered when the listing succeeded and
\* was not empty and the store was read.
RefreshAll(write) ==
    /\ runs < MaxRuns
    /\ \E cands \in {Discover(files)} :
       \E done \in {ProcessFiles(cands, LoopStart)} :
       \E out \in {RefreshOutcome(cands, done, write)} :
        LET looped == ~ListDirRaises /\ cands # <<>> /\ ~ReadStoreRaises
        IN  /\ runs' = runs + 1
            /\ storeBefore' = store
            /\ opened' = IF looped THEN done.opened ELSE <<>>
            /\ leaked' = IF looped THEN done.open ELSE <<>>
            /\ phase' = out.phase
            /\ result' = out.result
            /\ store' = out.store
            /\ storeIntact' = out.intact
            /\ UNCHANGED <<dirExists, files>>

RefreshAllFiles ==
    /\ \E write \in WriteOutcomes : RefreshAll(write)
    /\ UNCHANGED <<listing, dbVars, searchVars, forecastVars>>

(***************************************************************************)
(* Listing the quote master files                                          *)
(***************************************************************************)
\* manager.py 129-132: a regular file whose name ends in .xlsx and is not
\* parts_sandbox.xlsx.
IsQuoteMasterFile(f) == f.kind \in {"sheet", "nosheet", "unreadable"}

\* mainfuncs.py 23: any name ending in .xlsx.
EndsWithXlsx(f) == f.kind # "other"

Listed(by, isNone, names) == [by |-> by, isNone |-> isNone, names |-> names]

NotListed == Listed("none", FALSE, <<>>)

\* ApplicationManager.get_quote_master_files: os.listdir raising for a
\* missing directory is caught and gives [].
GetQuoteMasterFiles ==
    listing' = Listed("get_quote_master_files", FALSE,
                      IF dirExists THEN SelectSeq(files, IsQuoteMasterFile)
                      ELSE <<>>)

\* mainfuncs.list_quote_master_files: [] for a missing directory, None when
\* no name ends in .xlsx, else the names.
ListQuoteMasterFiles ==
    LET names == SelectSeq(files, EndsWithXlsx)
    IN  listing' = IF ~dirExists THEN Listed("list_quote_master_files", FALSE, <<>>)
                   ELSE IF names = <<>>
                   THEN Listed("list_quote_master_files", TRUE, <<>>)
                   ELSE Listed("list_quote_master_files", FALSE, names)

GetQuoteMasterFilesStep ==
    /\ GetQuoteMasterFiles
    /\ UNCHANGED <<refreshVars, dbVars, searchVars, forecastVars>>

ListQuoteMasterFilesStep ==
    /\ ListQuoteMasterFiles
    /\ UNCHANGED <<refreshVars, dbVars, searchVars, forecastVars>>

(***************************************************************************)
(* update_alias, search_parts, get_eau_forecast                            *)
(***************************************************************************)
\* manager.py 30-43: only the ':memory:' branch of get_connection calls
\* _init_db; a database file is opened as it is, and nothing creates its
\* tables.
TablesExist == dbPath = "memory"

\* manager.py 89: pd.read_excel(file_path, sheet_name='Master Part List')
ReadExcelRaises(f) == f.kind # "sheet"

\* manager.py 91
HasAliasAndValue(f) == "alias" \in f.hdr /\ "value" \in f.hdr

\* The aliases table declares value TEXT NOT NULL (manager.py 51): a NULL
\* value aborts the INSERT statement and undoes the rows it had written.
ViolatesNotNull(rows) == \E i \in DOMAIN rows : rows[i].value = Empty

RECURSIVE InsertOrReplace(_, _)
\* manager.py 107-110: INSERT OR REPLACE INTO aliases SELECT ... FROM
\* temp_aliases.  alias is TEXT PRIMARY KEY (manager.py 50): the row holding
\* the same alias is deleted and the new row added; NULL aliases never
\* conflict.
InsertOrReplace(table, rows) ==
    IF rows = <<>> THEN table
    ELSE LET r == Head(rows)
             kept == IF r.alias = Empty THEN table
                     ELSE SelectSeq(table, LAMBDA x : x.alias # r.alias)
         IN  InsertOrReplace(Append(kept, r), Tail(rows))

\* One call of update_alias(file_path).
UpdateAlias(f) ==
    LET accepted == /\ ~ReadExcelRaises(f)
                    /\ HasAliasAndValue(f)
                    /\ TablesExist
                    /\ ~ViolatesNotNull(f.rows)
        merged == InsertOrReplace(db, f.rows)
    IN  /\ accepted => Len(merged) <= MaxDbRows
        /\ db' = IF accepted THEN merged ELSE db
        /\ updateResult' = IF accepted THEN "true" ELSE "false"
        /\ updateColumns' = (~ReadExcelRaises(f) /\ HasAliasAndValue(f))
        /\ UNCHANGED dbPath

TermChars == {"a", "B", "_", "%"}

Terms == SeqsUpTo(TermChars, MaxTerm)

\* ASCII case folding, as SQLite's LIKE compares letters.
Fold(c) ==
    CASE c = "A" -> "a"
      [] c = "B" -> "b"
      [] c = "X" -> "x"
      [] OTHER -> c

\* A pattern character compared case-sensitively (as GLOB would).
CharMatchExact(p, c) == p = "_" \/ p = c

\* One pattern character of LIKE against one character of the text.
CharMatch(p, c) == p = "_" \/ Fold(p) = Fold(c)

RECURSIVE Like(_, _)
\* text LIKE pattern (manager.py 149-152), with no ESCAPE clause.
Like(pattern, text) ==
    IF pattern = <<>> THEN text = <<>>
    ELSE IF Head(pattern) = "%"
         THEN \/ Like(Tail(pattern), text)
              \/ text # <<>> /\ Like(pattern, Tail(text))
         ELSE /\ text # <<>>
              /\ CharMatch(Head(pattern), Head(text))
              /\ Like(Tail(pattern), Tail(text))

\* manager.py 152: f'%{search_term}%'
LikePattern(term) == <<"%">> \o term \o <<"%">>

\* A NULL column LIKE anything is NULL, which WHERE treats as false.
CellLike(cell, term) == cell # Empty /\ Like(LikePattern(term), cell)

\* manager.py 149-157
SelectAliases(table, term) ==
    SelectSeq(table, LAMBDA r : CellLike(r.alias, term) \/ CellLike(r.value, term))

\* One call of search_parts(search_term); the except clause returns [].
SearchParts(term) ==
    /\ searchTerm' = term
    /\ searchStatus' = "returned"
    /\ searchResult' = IF TablesExist THEN SelectAliases(db, term) ELSE <<>>

P1 == <<"p", "1">>
P2 == <<"p", "2">>
P3 == <<"p", "3">>

Parts == {P1, P2, P3}

\* The Part Number / EAU columns of the test workbook.
EauRecords == {[part |-> P1, eau |-> 100], [part |-> P2, eau |-> 200]}

\* One call of get_eau_forecast(part_number).  manager.py 167 reads the name
\* file_path, which is neither a parameter nor a global: NameError, which the
\* except FileNotFoundError clause does not catch.
GetEauForecast(part) ==
    /\ forecastPart' = part
    /\ forecastStatus' = "raised"
    /\ forecastEau' = forecastEau

UpdateAliasStep ==
    /\ \E f \in FileSet : UpdateAlias(f)
    /\ searchTerm' = <<>> /\ searchResult' = <<>> /\ searchStatus' = "none"
    /\ UNCHANGED <<refreshVars, listing, forecastVars>>

SearchPartsStep ==
    /\ \E term \in Terms : SearchParts(term)
    /\ UNCHANGED <<refreshVars, listing, dbVars, forecastVars>>

GetEauForecastStep ==
    /\ \E part \in Parts : GetEauForecast(part)
    /\ UNCHANGED <<refreshVars, listing, dbVars, searchVars>>

\* A new ApplicationManager on the same db_path (manager.py 18-25: _conn is
\* None).  Its first get_connection connects anew: to a database file as the
\* old manager left it, or to ':memory:', which is a new, empty database.
NewManager ==
    /\ db' = IF dbPath = "memory" THEN <<>> ELSE db
    /\ updateResult' = "none"
    /\ updateColumns' = FALSE
    /\ searchTerm' = <<>> /\ searchResult' = <<>> /\ searchStatus' = "none"
    /\ UNCHANGED dbPath

NewManagerStep ==
    /\ NewManager
    /\ UNCHANGED <<refreshVars, listing, forecastVars>>

(***************************************************************************)
(* Specifications                                                          *)
(***************************************************************************)
QueryIdle ==
    /\ db = <<>>
    /\ updateResult = "none"
    /\ updateColumns = FALSE
    /\ searchTerm = <<>>
    /\ searchResult = <<>>
    /\ searchStatus = "none"
    /\ forecastPart = <<>>
    /\ forecastStatus = "none"
    /\ forecastEau = 0

RefreshIdle ==
    /\ storeIntact = TRUE
    /\ storeBefore = store
    /\ phase = "Idle"
    /\ result = "none"
    /\ runs = 0
    /\ opened = <<>>
    /\ leaked = <<>>
    /\ listing = NotListed

\* The reconciliation engine over the spreadsheet store.
Init ==
    /\ dirExists \in BOOLEAN
    /\ files \in (IF dirExists THEN Dirs ELSE {<<>>})
    /\ store \in (IF dirExists THEN Stores ELSE {<<>>})
    /\ RefreshIdle
    /\ dbPath = "memory"
    /\ QueryIdle

Next == RefreshAllFiles

Spec == Init /\ [][Next]_vars

\* The query service and update_alias over the sqlite store.
InitQuery ==
    /\ dirExists = TRUE
    /\ files = <<>>
    /\ store = <<>>
    /\ RefreshIdle
    /\ dbPath \in {"memory", "file"}
    /\ QueryIdle

NextQuery == UpdateAliasStep \/ SearchPartsStep \/ GetEauForecastStep

SpecQuery == InitQuery /\ [][NextQuery]_vars

\* update_alias and search_parts across manager instances.
NextPersist == UpdateAliasStep \/ SearchPartsStep \/ NewManagerStep

SpecPersist == InitQuery /\ [][NextPersist]_vars

\* File discovery: the two listing functions and the listing refresh_all_files
\* makes for itself, over every kind of directory entry.
InitDiscovery ==
    /\ dirExists \in BOOLEAN
    /\ files \in (IF dirExists THEN Listings ELSE {<<>>})
    /\ store = <<>>
    /\ RefreshIdle
    /\ dbPath = "memory"
    /\ QueryIdle

NextDiscovery ==
    GetQuoteMasterFilesStep \/ ListQuoteMasterFilesStep \/ RefreshAllFiles

SpecDiscovery == InitDiscovery /\ [][NextDiscovery]_vars

\* One manager on a fresh installation, both stores empty.
InitSystem ==
    /\ dirExists = TRUE
    /\ files \in Dirs
    /\ store = <<>>
    /\ RefreshIdle
    /\ dbPath \in {"memory", "file"}
    /\ QueryIdle

\* The reconciliation engine writing and the query service reading.
NextVisibility == RefreshAllFiles \/ SearchPartsStep

SpecVisibility == InitSystem /\ [][NextVisibility]_vars

\* The two operations that bring alias records in.
NextIngest == RefreshAllFiles \/ UpdateAliasStep

SpecIngest == InitSystem /\ [][NextIngest]_vars

(***************************************************************************)
(* Properties of refresh_all_files (checked under Spec)                    *)
(***************************************************************************)
\* The directory entries refresh_all_files opens.
Candidates == {k \in DOMAIN files : IsCandidate(files[k])}

\* The candidates whose sheet carries both the alias and the value label.
Contributing == {k \in Candidates :
                    files[k].kind = "sheet" /\ BothColumns \subseteq files[k].hdr}

\* The candidates whose sheet loads but lacks one of the two labels.
MissingColumns == {k \in Candidates :
                    files[k].kind = "sheet" /\ ~(BothColumns \subseteq files[k].hdr)}

\* The candidates that fail to load (no workbook, or no Master Part List).
Failing == {k \in Candidates : QMFileRaises(files[k])}

\* <<file, row>> places that define alias a, in processing order.
Positions(a) == {p \in Contributing \X (1..MaxRows) :
                    /\ p[2] \in DOMAIN files[p[1]].rows
                    /\ files[p[1]].rows[p[2]].alias = a}

ValueAt(p) == files[p[1]].rows[p[2]].value

NotAfter(p, q) == p[1] < q[1] \/ (p[1] = q[1] /\ p[2] <= q[2])

DefinedAliases == {a \in {r.alias : r \in RowSet} : Positions(a) # {}}

RowsOf(s) == {s[i] : i \in DOMAIN s}

Completed == phase \in {"Persisted", "NothingToMerge"}

\* The run was ended by the store workbook: its save failed, or a save cut
\* short earlier had left it unreadable.
StoreFailed == phase \in {"WriteError", "StoreError"}

\* C1: every alias record in the store before a refresh run is still in the
\* store, with the same value, after the run, whatever the files define (a
\* run whose save of the store failed aside).
C1_FirstWriteWins ==
    (runs > 0 /\ ~StoreFailed) => RowsOf(storeBefore) \subseteq RowsOf(store)

\* A run that wrote the store while a file defined a stored alias with
\* another value.
C1_Witness ==
    /\ phase = "Persisted"
    /\ \E i \in DOMAIN storeBefore :
          \E p \in Positions(storeBefore[i].alias) :
              ValueAt(p) # storeBefore[i].value

\* C3: a refresh run that follows a refresh run on the same files, with no
\* other store mutation in between, completes like the first and leaves the
\* store as the first left it (runs ended by a missing directory or a failed
\* store write aside).
C3_Idempotent ==
    [][(/\ runs = 1 /\ runs' = 2
        /\ phase \notin {"DirError", "WriteError", "StoreError"}
        /\ phase' \notin {"DirError", "WriteError", "StoreError"})
       => (result # "raised" /\ result' # "raised" /\ store' = store)]_vars

\* C4: an alias not in the store before the run, defined at several places of
\* the batch, has exactly one entry after a persisted run, holding the value of
\* the first place in file then row order.
C4_DedupKeepsFirst ==
    phase = "Persisted" =>
        \A a \in DefinedAliases \ AliasesOf(storeBefore) :
            /\ Cardinality({i \in DOMAIN store : store[i].alias = a}) = 1
            /\ \A i \in DOMAIN store :
                  store[i].alias = a =>
                      \E p \in Positions(a) :
                          /\ \A q \in Positions(a) : NotAfter(p, q)
                          /\ store[i].value = ValueAt(p)

\* A persisted run whose batch defined a new alias twice, with two values.
C4_Witness ==
    /\ phase = "Persisted"
    /\ \E a \in DefinedAliases \ AliasesOf(storeBefore) :
          \E p, q \in Positions(a) : ValueAt(p) # ValueAt(q)

\* C5 as claimed: a run that returns reports success exactly when no candidate
\* file failed to be read; a file that only lacks the columns does not make
\* the result false.
C5_SuccessUnlessReadError ==
    Completed => (result = "true" <=> Failing = {})

\* C5 as the code has it: a run that returns reports True exactly when there
\* is a candidate and every candidate loaded and carried both columns; a file
\* lacking the columns makes the result False.
C5_SuccessOnlyWithoutWarnings ==
    (Completed \/ phase = "NoFiles") =>
        /\ result \in {"true", "false"}
        /\ result = "true" <=> (Candidates # {} /\ Candidates = Contributing)

\* A persisted run over a valid file and a file lacking the columns, every
\* file readable, that reported False.
C5_Witness ==
    /\ phase = "Persisted"
    /\ MissingColumns # {}
    /\ Failing = {}
    /\ \E k \in Contributing : Len(files[k].rows) = 2
    /\ result = "false"

FirstCandidateLoads ==
    \E k \in Candidates :
        /\ \A j \in Candidates : k <= j
        /\ files[k].kind = "sheet"

\* C6: in a batch holding a file without both headers (whose first candidate
\* loads, and whose store write does not fail), the run completes, every alias
\* of the files that have both headers is in the store, and nothing enters the
\* store from any other file.
C6_MissingColumnsTolerated ==
    (runs > 0 /\ MissingColumns # {} /\ FirstCandidateLoads /\ ~StoreFailed) =>
        /\ Completed
        /\ DefinedAliases \subseteq AliasesOf(store)
        /\ \A r \in RowsOf(store) :
              \/ r \in RowsOf(storeBefore)
              \/ \E p \in Positions(r.alias) : ValueAt(p) = r.value

\* A persisted run with a columns-missing file before and after which a valid
\* file brought a new alias.
C6_Witness ==
    /\ phase = "Persisted"
    /\ \E m \in MissingColumns, k \in Contributing :
          \E i \in DOMAIN files[k].rows :
              files[k].rows[i].alias \notin AliasesOf(storeBefore)

\* C7: whatever file fails to load, the first included, a run over a
\* non-empty candidate list whose store write does not fail does not raise,
\* and the aliases of the files that did load are in the store.
C7_FileFailureNeverAborts ==
    (runs > 0 /\ dirExists /\ Candidates # {} /\ ~StoreFailed) =>
        /\ result # "raised"
        /\ DefinedAliases \subseteq AliasesOf(store)

\* C15: a refresh run whose write of the store failed leaves the store
\* readable and holding what it held when the run began.
C15_FailedWriteLeavesStore ==
    phase = "WriteError" => (storeIntact /\ store = storeBefore)

\* C16: a refresh run on a missing directory raises to its caller, passes no
\* file to QMFile and leaves the store as it was.
C16_MissingDirectoryIsFatal ==
    (runs > 0 /\ ~dirExists) =>
        /\ result = "raised"
        /\ opened = <<>>
        /\ store = storeBefore /\ storeIntact

\* A run on a missing directory has ended.
C16_Witness ==
    runs > 0 /\ ~dirExists /\ phase = "DirError"

\* C14: when a refresh run has ended, by return or by exception, no workbook
\* it loaded from a candidate file is still open.
C14_NoWorkbookLeftOpen ==
    runs > 0 => leaked = <<>>

(***************************************************************************)
(* Properties of the query service (checked under SpecQuery)               *)
(***************************************************************************)
\* C2: update_alias leaves every alias record already in the table as it was.
C2_UpdateKeepsExisting ==
    [][RowsOf(db) \subseteq RowsOf(db')]_vars

\* text contains term as a literal, case-sensitive substring.
Contains(text, term) ==
    \E i \in 0..(Len(text) - Len(term)) :
        \A k \in 1..Len(term) : text[i + k] = term[k]

CellContains(cell, term) == cell # Empty /\ Contains(cell, term)

\* The two characters are one letter in either case.
SameLetter(c, d) ==
    c = d \/ {c, d} \in {{"a", "A"}, {"b", "B"}, {"x", "X"}}

\* text matches %term%: the pattern's characters consume text left to right,
\* '%' any run, '_' any one character, a letter itself in either case.
Matches(text, term) ==
    LET pat == <<"%">> \o term \o <<"%">>
        n == Len(pat)
    IN  \E cut \in [0..n -> 0..Len(text)] :
            /\ cut[0] = 0
            /\ cut[n] = Len(text)
            /\ \A k \in 1..n :
                  /\ cut[k - 1] <= cut[k]
                  /\ \/ pat[k] = "%"
                     \/ /\ cut[k] = cut[k - 1] + 1
                        /\ pat[k] = "_" \/ SameLetter(pat[k], text[cut[k]])

CellMatches(cell, term) == cell # Empty /\ Matches(cell, term)

\* C8 as claimed: a search for a non-empty term returns exactly the records
\* whose alias or value contains the term as a case-sensitive literal
\* substring.
C8_SearchLiteralSubstring ==
    (searchStatus = "returned" /\ searchTerm # <<>>) =>
        RowsOf(searchResult) =
            {r \in RowsOf(db) : CellContains(r.alias, searchTerm)
                                \/ CellContains(r.value, searchTerm)}

\* C8 as the code has it: a search for a non-empty term returns exactly the
\* records whose alias or value matches %term% without regard to the case of
\* ASCII letters, '_' and '%' in the term being wildcards.
C8_SearchLikePattern ==
    (searchStatus = "returned" /\ searchTerm # <<>>) =>
        RowsOf(searchResult) =
            {r \in RowsOf(db) : CellMatches(r.alias, searchTerm)
                                \/ CellMatches(r.value, searchTerm)}

\* A search for "B" that returned the record whose alias is "ab".
C8_Witness ==
    /\ searchStatus = "returned"
    /\ searchTerm = <<"B">>
    /\ \E i \in DOMAIN searchResult : searchResult[i].alias = A1

\* C9: a search with the empty term returns none of the store's records.
C9_EmptyTermRejected ==
    (searchStatus = "returned" /\ searchTerm = <<>>) => searchResult = <<>>

Eau(part) ==
    IF \E r \in EauRecords : r.part = part
    THEN (CHOOSE r \in EauRecords : r.part = part).eau
    ELSE 0

\* C10: get_eau_forecast returns, for every part number, a result whose eau is
\* the part's recorded EAU, or 0 when the part has none; it never raises.
C10_ForecastLookup ==
    forecastStatus # "none" =>
        (forecastStatus = "returned" /\ forecastEau = Eau(forecastPart))

(***************************************************************************)
(* Properties of file discovery (checked under SpecDiscovery)              *)
(***************************************************************************)
\* The regular files of the directory that carry the .xlsx extension, the
\* store's own workbook left out.
RegularSpreadsheets ==
    SelectSeq(files, LAMBDA f : f.kind \in {"sheet", "nosheet", "unreadable"})

\* C11: whatever the directory holds, a listing call returns exactly its
\* regular .xlsx files other than the store's workbook, in directory order,
\* and a refresh run opens nothing but such files.
C11_CandidatesAreRegularSpreadsheets ==
    dirExists =>
        /\ listing.by # "none" =>
              (~listing.isNone /\ listing.names = RegularSpreadsheets)
        /\ \A i \in DOMAIN opened :
              \E k \in DOMAIN RegularSpreadsheets :
                  opened[i] = RegularSpreadsheets[k]

(***************************************************************************)
(* Properties of the two services together (checked under SpecVisibility   *)
(* and SpecIngest)                                                         *)
(***************************************************************************)
\* C12: a search_parts call made after a refresh run persisted the store
\* returns every record of the store whose alias or value contains the term.
C12_SearchSeesRefreshedStore ==
    [][(searchStatus' = "returned" /\ runs' = runs /\ phase = "Persisted") =>
          \A r \in RowsOf(store) :
              (CellContains(r.alias, searchTerm')
               \/ CellContains(r.value, searchTerm'))
                  => r \in RowsOf(searchResult')]_vars

\* No cell of a record is empty, and no alias has two records.
NoEmptyCell(s) == \A r \in RowsOf(s) : r.alias # Empty /\ r.value # Empty

\* C17: after any refresh_all_files and update_alias calls on empty stores,
\* every record of the workbook store and of the sqlite table has a non-empty
\* alias and a non-empty value, and no two records of a store share an alias.
C17_StoresWellFormed ==
    /\ NoEmptyCell(store) /\ WellFormed(store)
    /\ NoEmptyCell(db) /\ WellFormed(db)

(***************************************************************************)
(* Properties of update_alias (checked under SpecPersist)                  *)
(***************************************************************************)
\* C13: update_alias on a sheet that has both the alias and the value column
\* returns True, and the records in the table after an accepted call are
\* still there for a manager created afterwards on the same db_path.
C13_UpdateAcceptedAndDurable ==
    [][/\ (updateResult' # "none" /\ updateColumns') => updateResult' = "true"
       /\ (updateResult = "true" /\ updateResult' = "none") =>
              RowsOf(db) \subseteq RowsOf(db')]_vars

====
